---- MODULE Spec2Model ----
(***************************************************************************)
(* A model of the metainfo crate: the scoped MetaInfo store of lib.rs      *)
(* (typed map + string map with a read-only parent chain), the TypeMap of  *)
(* type_map.rs, and the per-channel KV sequences of kv.rs (Node).          *)
(***************************************************************************)
EXTENDS Integers, Sequences, FiniteSets, TLC

\* ---------------------------------------------------------------- bounds
\* Number of MetaInfo values that are ever constructed, and how many of them
\* by MetaInfo::new() (the others by MetaInfo::from).
MaxScopes == 3
MaxRoots == 1
\* Total number of KV entries one Node holds over its three channels.
MaxEntries == 3

\* The type parameters T used by callers, and the values they carry.
Types == {"i8"}
Vals == {2, 4}
\* String keys and values of the smap.
Keys == {"k"}
Strs == {"a", "b"}
\* Channels of a Node, and the keys / values written to them.
Channels == {"persistent", "transient", "stale"}
NKeys == {"k", "j"}
NVals == {"1", "2"}

VARIABLES
    heap,    \* the MetaInfo values constructed so far; a parent is an index
    shared,  \* the MetaInfo values that were moved into an Arc (read-only)
    moved,   \* the MetaInfo values that were passed by value to extend
    born,    \* per scope: its ancestors' contents when it was constructed
    last,    \* the last MetaInfo call: name, receiver, heap before, arguments, result
    node,    \* one kv.rs Node: channel -> Option<Vec<Arc<KV>>>
    nlast,   \* the last Node call: name, channel, node before, arguments, result
    written  \* the channels on which a set_<name> was ever performed

vars == <<heap, shared, moved, born, last, node, nlast, written>>

\* ------------------------------------------------------- Option<T> (std)
None == <<>>
Some(x) == <<x>>
is_some(o) == o # None
unwrap(o) == o[1]
\* Option::get_or_insert_with: the value held, or the default put there.
get_or_insert_with(o, default) == IF o = None THEN default ELSE unwrap(o)

\* ----------------------------------------------------------- type_map.rs
\* Box<dyn Any>: a value together with the TypeId of its concrete type.
AnyObject(T, v) == [type_id |-> T, val |-> v]
\* Any::downcast / downcast_ref: succeeds iff the concrete type is T.
downcast(boxed, T) == IF boxed.type_id = T THEN Some(boxed.val) ELSE None

\* TypeMap::default(): an empty HashMap<TypeId, AnyObject>.
TypeMap_default == [x \in {} |-> x]

\* HashMap::insert: the entry for the key is created or overwritten.
HashMap_insert(m, key, val) ==
    [x \in DOMAIN m \cup {key} |-> IF x = key THEN val ELSE m[x]]
\* HashMap::get.
HashMap_get(m, key) == IF key \in DOMAIN m THEN Some(m[key]) ELSE None
\* HashMap::remove: the map without the key, and the value it held.
HashMap_remove(m, key) ==
    [map |-> [x \in DOMAIN m \ {key} |-> m[x]], ret |-> HashMap_get(m, key)]
\* HashMap::clear: no entry is left.
HashMap_clear(m) == [x \in {} |-> x]
\* An extend that keeps the receiver's entry where both maps hold the key.
HashMap_extend_keep(m, other) ==
    [x \in DOMAIN m \cup DOMAIN other |-> IF x \in DOMAIN m THEN m[x] ELSE other[x]]

\* HashMap::extend: every entry of other is inserted (overwriting).
HashMap_extend(m, other) ==
    [x \in DOMAIN m \cup DOMAIN other |-> IF x \in DOMAIN other THEN other[x] ELSE m[x]]

TypeMap_insert(inner, T, t) == HashMap_insert(inner, T, AnyObject(T, t))

TypeMap_get(inner, T) ==
    LET boxed == HashMap_get(inner, T)
    IN  IF is_some(boxed) THEN downcast(unwrap(boxed), T) ELSE None

TypeMap_contains(inner, T) == T \in DOMAIN inner

TypeMap_remove(inner, T) ==
    LET r == HashMap_remove(inner, T)
    IN  [map |-> r.map,
         ret |-> IF is_some(r.ret) THEN downcast(unwrap(r.ret), T) ELSE None]

TypeMap_clear(inner) == HashMap_clear(inner)

TypeMap_extend(inner, other) == HashMap_extend(inner, other)

\* ---------------------------------------------------------------- lib.rs
\* FxHashMap::default(): an empty string map.
FxHashMap_default == [x \in {} |-> x]

\* MetaInfo::new(): Default::default().
new == [parent |-> None, tmap |-> None, smap |-> None]

\* MetaInfo::from(parent).
from(parent) == [parent |-> Some(parent), tmap |-> None, smap |-> None]

\* An insert that keeps the value already stored for T (entry().or_insert).
insert_keep(self, T, val) ==
    LET m == get_or_insert_with(self.tmap, TypeMap_default)
    IN  [self EXCEPT !.tmap =
            Some(IF T \in DOMAIN m THEN m ELSE TypeMap_insert(m, T, val))]

\* MetaInfo::insert::<T>(val), on the receiver self.
insert(self, T, val) ==
    [self EXCEPT !.tmap =
        Some(TypeMap_insert(get_or_insert_with(self.tmap, TypeMap_default), T, val))]

\* MetaInfo::insert_string(key, val).
insert_string(self, key, val) ==
    [self EXCEPT !.smap =
        Some(HashMap_insert(get_or_insert_with(self.smap, FxHashMap_default), key, val))]

\* A contains that looks into the receiver's own tmap only (no fallback).
contains_local(h, s, T) ==
    IF is_some(h[s].tmap) THEN TypeMap_contains(unwrap(h[s].tmap), T) ELSE FALSE

\* MetaInfo::contains::<T>(): the local tmap, then the parent.
RECURSIVE contains(_, _, _)
contains(h, s, T) ==
    LET self == h[s]
    IN  IF (IF is_some(self.tmap) THEN TypeMap_contains(unwrap(self.tmap), T) ELSE FALSE)
        THEN TRUE
        ELSE IF is_some(self.parent) THEN contains(h, unwrap(self.parent), T) ELSE FALSE

\* MetaInfo::contains_string(key).
RECURSIVE contains_string(_, _, _)
contains_string(h, s, key) ==
    LET self == h[s]
    IN  IF (IF is_some(self.smap) THEN key \in DOMAIN unwrap(self.smap) ELSE FALSE)
        THEN TRUE
        ELSE IF is_some(self.parent)
             THEN contains_string(h, unwrap(self.parent), key)
             ELSE FALSE

\* A get whose fallback reads the parent's own tmap instead of calling get on it.
get_shallow(h, s, T) ==
    LET self == h[s]
        own == IF is_some(self.tmap) THEN TypeMap_get(unwrap(self.tmap), T) ELSE None
        p == h[unwrap(self.parent)]
    IN  IF is_some(own) THEN own
        ELSE IF is_some(self.parent)
             THEN (IF is_some(p.tmap) THEN TypeMap_get(unwrap(p.tmap), T) ELSE None)
             ELSE None

\* MetaInfo::get::<T>(): tmap.and_then(get).or_else(parent.and_then(get)).
RECURSIVE get(_, _, _)
get(h, s, T) ==
    LET self == h[s]
        own == IF is_some(self.tmap) THEN TypeMap_get(unwrap(self.tmap), T) ELSE None
    IN  IF is_some(own) THEN own
        ELSE IF is_some(self.parent) THEN get(h, unwrap(self.parent), T) ELSE None

\* MetaInfo::get_string(key).
RECURSIVE get_string(_, _, _)
get_string(h, s, key) ==
    LET self == h[s]
        own == IF is_some(self.smap) THEN HashMap_get(unwrap(self.smap), key) ELSE None
    IN  IF is_some(own) THEN own
        ELSE IF is_some(self.parent) THEN get_string(h, unwrap(self.parent), key) ELSE None

\* A remove that allocates the map it looks into (get_or_insert_with for as_mut).
remove_alloc(self, T) ==
    LET r == TypeMap_remove(get_or_insert_with(self.tmap, TypeMap_default), T)
    IN  [self |-> [self EXCEPT !.tmap = Some(r.map)], ret |-> r.ret]

\* A remove that hands the value out and leaves the entry in the map.
remove_keep(self, T) ==
    IF is_some(self.tmap)
    THEN [self |-> self, ret |-> TypeMap_get(unwrap(self.tmap), T)]
    ELSE [self |-> self, ret |-> None]

\* MetaInfo::remove::<T>(): the receiver afterwards, and the value returned.
remove(self, T) ==
    IF is_some(self.tmap)
    THEN LET r == TypeMap_remove(unwrap(self.tmap), T)
         IN  [self |-> [self EXCEPT !.tmap = Some(r.map)], ret |-> r.ret]
    ELSE [self |-> self, ret |-> None]

\* A remove_string that also takes the typed map away (self.tmap.take()).
remove_string_take(self, key) ==
    IF is_some(self.smap)
    THEN LET r == HashMap_remove(unwrap(self.smap), key)
         IN  [self |-> [self EXCEPT !.smap = Some(r.map), !.tmap = None], ret |-> r.ret]
    ELSE [self |-> [self EXCEPT !.tmap = None], ret |-> None]

\* A remove_string that hands out the parent chain's value when the receiver
\* holds none itself (attached to the heap the receiver lives in).
remove_string_inherit(self, key) ==
    IF is_some(self.smap) /\ key \in DOMAIN unwrap(self.smap)
    THEN LET r == HashMap_remove(unwrap(self.smap), key)
         IN  [self |-> [self EXCEPT !.smap = Some(r.map)], ret |-> r.ret]
    ELSE [self |-> self,
          ret |-> IF is_some(self.parent)
                  THEN get_string(heap, unwrap(self.parent), key) ELSE None]

\* MetaInfo::remove_string(key).
remove_string(self, key) ==
    IF is_some(self.smap)
    THEN LET r == HashMap_remove(unwrap(self.smap), key)
         IN  [self |-> [self EXCEPT !.smap = Some(r.map)], ret |-> r.ret]
    ELSE [self |-> self, ret |-> None]

\* A clear that resets the whole value (*self = Default::default()), the
\* parent reference included.
clear_default(self) == [parent |-> None, tmap |-> None, smap |-> None]

\* A clear that forgets the typed map.
clear_smap_only(self) ==
    [self EXCEPT !.smap = IF is_some(@) THEN Some(HashMap_clear(unwrap(@))) ELSE None]

\* MetaInfo::clear(): both maps are emptied where they exist.
clear(self) ==
    [self EXCEPT
        !.tmap = IF is_some(@) THEN Some(TypeMap_clear(unwrap(@))) ELSE None,
        !.smap = IF is_some(@) THEN Some(HashMap_clear(unwrap(@))) ELSE None]

\* MetaInfo::extend(other): other's own maps are merged into self's.
extend(self, other) ==
    [self EXCEPT
        !.tmap = IF is_some(other.tmap)
                 THEN Some(TypeMap_extend(get_or_insert_with(@, TypeMap_default),
                                          unwrap(other.tmap)))
                 ELSE @,
        !.smap = IF is_some(other.smap)
                 THEN Some(HashMap_extend(get_or_insert_with(@, FxHashMap_default),
                                          unwrap(other.smap)))
                 ELSE @]

\* ------------------------------------------------------------------ kv.rs
DEFAULT_CAPACITY == 10

\* KV::new(key, value).
KV_new(key, value) == [key |-> key, value |-> value]

\* Vec::with_capacity: an empty vector (the capacity is a reservation only).
Vec_with_capacity(capacity) == <<>>
\* Vec::push.
Vec_push(v, x) == Append(v, x)
\* Vec::remove(index): the later elements shift left. Indices start at 1 here.
Vec_remove(v, index) == SubSeq(v, 1, index - 1) \o SubSeq(v, index + 1, Len(v))

\* v.iter().position(|k| k.key == key), scanning from index i.
RECURSIVE position(_, _, _)
position(v, key, i) ==
    IF i > Len(v) THEN None
    ELSE IF v[i].key = key THEN Some(i)
    ELSE position(v, key, i + 1)

\* A find that returns the last match (rfind).
RECURSIVE find_last(_, _, _)
find_last(v, key, i) ==
    IF i > Len(v) THEN None
    ELSE LET later == find_last(v, key, i + 1)
         IN  IF is_some(later) THEN later
             ELSE IF v[i].key = key THEN Some(v[i]) ELSE None

\* v.iter().find(|&kv| kv.key == key), scanning from index i.
RECURSIVE find(_, _, _)
find(v, key, i) ==
    IF i > Len(v) THEN None
    ELSE IF v[i].key = key THEN Some(v[i])
    ELSE find(v, key, i + 1)

\* A set that overwrites the value of an entry with the same key (replace on write).
set_replace(self, name, key, value) ==
    LET v == IF self[name] = None THEN <<>> ELSE unwrap(self[name])
        index == position(v, key, 1)
    IN  IF is_some(index)
        THEN [self EXCEPT ![name] = Some([v EXCEPT ![unwrap(index)] = KV_new(key, value)])]
        ELSE [self EXCEPT ![name] = Some(Vec_push(v, KV_new(key, value)))]

\* A set whose body names the persistent field instead of the macro's $name.
set_persistent_only(self, name, key, value) ==
    LET v == IF self["persistent"] = None THEN Vec_with_capacity(DEFAULT_CAPACITY)
             ELSE unwrap(self["persistent"])
    IN  [self EXCEPT !["persistent"] = Some(Vec_push(v, KV_new(key, value)))]

\* set_impl!(name): Node::set_<name>(key, value) on the receiver self.
set_impl(self, name, key, value) ==
    LET kv == KV_new(key, value)
        created == IF self[name] = None
                   THEN [self EXCEPT ![name] = Some(Vec_with_capacity(DEFAULT_CAPACITY))]
                   ELSE self
    IN  [created EXCEPT ![name] = Some(Vec_push(unwrap(@), kv))]

\* A del that removes every entry with the key (retain).
del_retain(self, name, key) ==
    IF is_some(self[name])
    THEN [self EXCEPT ![name] = Some(SelectSeq(unwrap(@), LAMBDA kv : kv.key # key))]
    ELSE self

\* A del that drops the sequence itself when it removes its last entry.
del_drop_empty(self, name, key) ==
    IF is_some(self[name])
    THEN LET v == unwrap(self[name])
             index == position(v, key, 1)
         IN  IF is_some(index)
             THEN [self EXCEPT ![name] = IF Len(v) = 1 THEN None
                                         ELSE Some(Vec_remove(v, unwrap(index)))]
             ELSE self
    ELSE self

\* del_impl!(name): Node::del_<name>(key).
del_impl(self, name, key) ==
    IF is_some(self[name])
    THEN LET v == unwrap(self[name])
             index == position(v, key, 1)
         IN  IF is_some(index)
             THEN [self EXCEPT ![name] = Some(Vec_remove(v, unwrap(index)))]
             ELSE self
    ELSE self

\* A get that yields the default value where the key has no entry
\* (unwrap_or_default).
get_or_default(self, name, key) ==
    IF is_some(self[name]) /\ is_some(find(unwrap(self[name]), key, 1))
    THEN Some(unwrap(find(unwrap(self[name]), key, 1)).value)
    ELSE Some("")

\* get_impl!(name): Node::get_<name>(key).
get_impl(self, name, key) ==
    IF is_some(self[name])
    THEN LET kv == find(unwrap(self[name]), key, 1)
         IN  IF is_some(kv) THEN Some(unwrap(kv).value) ELSE None
    ELSE None

\* Node::default().
Node_default == [name \in Channels |-> None]

\* ------------------------------------------------------- MetaInfo state
\* The scopes constructed so far.
Scopes == 1..Len(heap)
\* The scopes constructed by MetaInfo::new().
Roots == {s \in Scopes : heap[s].parent = None}
\* A scope inside an Arc is reachable by shared reference only, and a scope
\* passed by value is gone; the &mut self methods can be called on the others.
Owned == Scopes \ (shared \cup moved)

\* The ancestors of scope s, nearest first.
RECURSIVE Chain(_, _)
Chain(h, s) ==
    IF is_some(h[s].parent)
    THEN <<unwrap(h[s].parent)>> \o Chain(h, unwrap(h[s].parent))
    ELSE <<>>
Ancestors(h, s) == {Chain(h, s)[i] : i \in 1..Len(Chain(h, s))}

\* A call record: the method, the receiver's index, the heap before the call,
\* the key (type or string key), the value argument, the scope passed by
\* value, the value returned, and whether the call before it was a clear()
\* on the same receiver.
Call(op, s, before, k, v, other, ret) ==
    [op |-> op, s |-> s, before |-> before, k |-> k, v |-> v,
     other |-> other, ret |-> ret,
     after_clear |-> (last.op = "clear" /\ last.s = s)]

NodeCall(op, ch, before, k, v, ret) ==
    [op |-> op, ch |-> ch, before |-> before, k |-> k, v |-> v, ret |-> ret]

Init ==
    /\ heap = <<>>
    /\ shared = {}
    /\ moved = {}
    /\ born = <<>>
    /\ last = [op |-> "init", s |-> 0, before |-> <<>>, k |-> "", v |-> None,
               other |-> 0, ret |-> None, after_clear |-> FALSE]
    /\ node = Node_default
    /\ nlast = NodeCall("init", "", Node_default, "", "", None)
    /\ written = {}

\* let m = MetaInfo::new();
New ==
    /\ Len(heap) < MaxScopes
    /\ Cardinality(Roots) < MaxRoots
    /\ heap' = Append(heap, new)
    /\ born' = Append(born, <<>>)
    /\ last' = Call("new", Len(heap) + 1, heap, "", None, 0, None)
    /\ UNCHANGED <<shared, moved, node, nlast, written>>

\* let m = MetaInfo::from(Arc::new(p)), or MetaInfo::from(arc_p.clone()).
From(p) ==
    /\ Len(heap) < MaxScopes
    /\ p \in Scopes \ moved
    /\ heap' = Append(heap, from(p))
    /\ shared' = shared \cup {p}
    /\ born' = Append(born, [a \in {p} \cup Ancestors(heap, p) |-> heap[a]])
    /\ last' = Call("from", Len(heap) + 1, heap, "", None, 0, None)
    /\ UNCHANGED <<moved, node, nlast, written>>

\* An insert that stores the value in the root of the receiver's chain, as if
\* the scopes of one chain shared a single map.
Insert_in_root(s, T, val) ==
    /\ s \in Owned
    /\ heap' = [heap EXCEPT ![(<<s>> \o Chain(heap, s))[Len(Chain(heap, s)) + 1]]
                                = insert(@, T, val)]
    /\ last' = Call("insert", s, heap, T, Some(val), 0, None)
    /\ UNCHANGED <<shared, moved, born, node, nlast, written>>

Insert(s, T, val) ==
    /\ s \in Owned
    /\ heap' = [heap EXCEPT ![s] = insert(@, T, val)]
    /\ last' = Call("insert", s, heap, T, Some(val), 0, None)
    /\ UNCHANGED <<shared, moved, born, node, nlast, written>>

InsertString(s, key, val) ==
    /\ s \in Owned
    /\ heap' = [heap EXCEPT ![s] = insert_string(@, key, val)]
    /\ last' = Call("insert_string", s, heap, key, Some(val), 0, None)
    /\ UNCHANGED <<shared, moved, born, node, nlast, written>>

\* A remove that, like get, falls back to the parent when the receiver has no
\* entry of its own.
Remove_through(s, T) ==
    /\ s \in Owned
    /\ heap' = IF remove(heap[s], T).ret = None /\ is_some(heap[s].parent)
               THEN [heap EXCEPT ![unwrap(heap[s].parent)] = remove(@, T).self]
               ELSE [heap EXCEPT ![s] = remove(@, T).self]
    /\ last' = Call("remove", s, heap, T, None, 0, remove(heap[s], T).ret)
    /\ UNCHANGED <<shared, moved, born, node, nlast, written>>

Remove(s, T) ==
    /\ s \in Owned
    /\ heap' = [heap EXCEPT ![s] = remove(@, T).self]
    /\ last' = Call("remove", s, heap, T, None, 0, remove(heap[s], T).ret)
    /\ UNCHANGED <<shared, moved, born, node, nlast, written>>

RemoveString(s, key) ==
    /\ s \in Owned
    /\ heap' = [heap EXCEPT ![s] = remove_string(@, key).self]
    /\ last' = Call("remove_string", s, heap, key, None, 0,
                    remove_string(heap[s], key).ret)
    /\ UNCHANGED <<shared, moved, born, node, nlast, written>>

Clear(s) ==
    /\ s \in Owned
    /\ heap' = [heap EXCEPT ![s] = clear(@)]
    /\ last' = Call("clear", s, heap, "", None, 0, None)
    /\ UNCHANGED <<shared, moved, born, node, nlast, written>>

\* a.extend(b): b is passed by value and cannot be used afterwards.
Extend(s, other) ==
    /\ s \in Owned
    /\ other \in Owned \ {s}
    /\ heap' = [heap EXCEPT ![s] = extend(@, heap[other])]
    /\ moved' = moved \cup {other}
    /\ last' = Call("extend", s, heap, "", None, other, None)
    /\ UNCHANGED <<shared, born, node, nlast, written>>

Next ==
    \/ New
    \/ \E p \in Scopes : From(p)
    \/ \E s \in Scopes, T \in Types, val \in Vals : Insert(s, T, val)
    \/ \E s \in Scopes, key \in Keys, val \in Strs : InsertString(s, key, val)
    \/ \E s \in Scopes, T \in Types : Remove(s, T)
    \/ \E s \in Scopes, key \in Keys : RemoveString(s, key)
    \/ \E s \in Scopes : Clear(s)
    \/ \E s \in Scopes, other \in Scopes : Extend(s, other)

Spec == Init /\ [][Next]_vars

\* ----------------------------------------------------------- Node state
\* The number of entries the Node holds over all its channels.
RECURSIVE TotalLen(_, _)
TotalLen(n, chs) ==
    IF chs = {} THEN 0
    ELSE LET c == CHOOSE x \in chs : TRUE
         IN  (IF is_some(n[c]) THEN Len(unwrap(n[c])) ELSE 0) + TotalLen(n, chs \ {c})

\* node.set_<name>(key, value)
Set(name, key, value) ==
    /\ TotalLen(node, Channels) < MaxEntries
    /\ node' = set_impl(node, name, key, value)
    /\ nlast' = NodeCall("set", name, node, key, value, None)
    /\ written' = written \cup {name}
    /\ UNCHANGED <<heap, shared, moved, born, last>>

\* node.del_<name>(key)
Del(name, key) ==
    /\ node' = del_impl(node, name, key)
    /\ nlast' = NodeCall("del", name, node, key, "", None)
    /\ UNCHANGED <<heap, shared, moved, born, last, written>>

\* node.get_<name>(key): takes &self.
Get(name, key) ==
    /\ nlast' = NodeCall("get", name, node, key, "", get_impl(node, name, key))
    /\ UNCHANGED <<node, heap, shared, moved, born, last, written>>

NextKV ==
    \/ \E name \in Channels, key \in NKeys, value \in NVals : Set(name, key, value)
    \/ \E name \in Channels, key \in NKeys : Del(name, key)
    \/ \E name \in Channels, key \in NKeys : Get(name, key)

SpecKV == Init /\ [][NextKV]_vars

\* ================================================================ claims
\* Reading the state directly (not through the methods).
\* The scope's own entry for type T / for string key, as an Option.
LocalT(m, T) ==
    IF m.tmap # None /\ T \in DOMAIN m.tmap[1] THEN Some(m.tmap[1][T].val) ELSE None
LocalS(m, key) ==
    IF m.smap # None /\ key \in DOMAIN m.smap[1] THEN Some(m.smap[1][key]) ELSE None
\* Scope s followed by its ancestors, nearest first.
Path(s) == <<s>> \o Chain(heap, s)
Min(S) == CHOOSE x \in S : \A y \in S : x <= y
\* The positions on the path of s whose scope holds T / key itself.
HoldersT(s, T) == {i \in 1..Len(Path(s)) : LocalT(heap[Path(s)[i]], T) # None}
HoldersS(s, key) == {i \in 1..Len(Path(s)) : LocalS(heap[Path(s)[i]], key) # None}
\* The scopes a caller can still reach.
Live == Scopes \ moved
Mutators == {"insert", "insert_string", "remove", "remove_string", "clear", "extend"}

\* C1: on a parent chain of any depth, get::<T>() / get_string(k) returns the
\* scope's own entry when it has one, otherwise exactly what the same lookup
\* on its parent returns; it is absent only when no scope from this one up to
\* the root holds the entry, and the nearest holder's value wins.
C1_NearestHolderWins ==
    \A s \in Live :
        /\ \A T \in Types :
            /\ LocalT(heap[s], T) # None => get(heap, s, T) = LocalT(heap[s], T)
            /\ (LocalT(heap[s], T) = None /\ heap[s].parent # None)
                   => get(heap, s, T) = get(heap, heap[s].parent[1], T)
            /\ (get(heap, s, T) = None) <=> (HoldersT(s, T) = {})
            /\ HoldersT(s, T) # {}
                   => get(heap, s, T) = LocalT(heap[Path(s)[Min(HoldersT(s, T))]], T)
        /\ \A key \in Keys :
            /\ LocalS(heap[s], key) # None => get_string(heap, s, key) = LocalS(heap[s], key)
            /\ (LocalS(heap[s], key) = None /\ heap[s].parent # None)
                   => get_string(heap, s, key) = get_string(heap, heap[s].parent[1], key)
            /\ (get_string(heap, s, key) = None) <=> (HoldersS(s, key) = {})
            /\ HoldersS(s, key) # {}
                   => get_string(heap, s, key)
                          = LocalS(heap[Path(s)[Min(HoldersS(s, key))]], key)

\* C1 witness: a chain of depth three whose leaf holds nothing, whose middle
\* scope holds nothing of type T, and whose root holds T (found two levels up),
\* while for the string key the middle scope shadows the root.
C1_Witness ==
    \E s \in Live :
        /\ Len(Path(s)) = 3
        /\ LocalT(heap[s], "i8") = None
        /\ LocalT(heap[Path(s)[2]], "i8") = None
        /\ LocalT(heap[Path(s)[3]], "i8") = Some(4)
        /\ get(heap, s, "i8") = Some(4)
        /\ LocalS(heap[s], "k") = None
        /\ LocalS(heap[Path(s)[2]], "k") = Some("a")
        /\ LocalS(heap[Path(s)[3]], "k") = Some("b")
        /\ get_string(heap, s, "k") = Some("a")

\* C2: every mutating operation on a scope leaves the own typed and string
\* entries of its parent and of every further ancestor unchanged: in every
\* state, each ancestor of each scope holds exactly what it held when that
\* scope was created from it.
C2_AncestorsUnchanged ==
    \A c \in Scopes : \A a \in Ancestors(heap, c) : heap[a] = born[c][a]

\* C2 witness: a mutating call changed a child whose parent holds entries.
C2_Witness ==
    /\ last.op \in Mutators
    /\ heap[last.s].parent # None
    /\ heap[last.s] # last.before[last.s]
    /\ LocalT(heap[heap[last.s].parent[1]], "i8") # None
    /\ LocalS(heap[heap[last.s].parent[1]], "k") # None

\* C3: shadow-then-unshadow. After C.insert::<T>(v2), C.get::<T>() returns v2;
\* after C.remove::<T>() on a child whose parent chain yields v, C.get::<T>()
\* returns v again. The same for insert_string / remove_string / get_string.
C3_ShadowThenUnshadow ==
    /\ last.op = "insert" => get(heap, last.s, last.k) = last.v
    /\ last.op = "insert_string" => get_string(heap, last.s, last.k) = last.v
    /\ (last.op = "remove" /\ heap[last.s].parent # None)
           => get(heap, last.s, last.k) = get(heap, heap[last.s].parent[1], last.k)
    /\ (last.op = "remove_string" /\ heap[last.s].parent # None)
           => get_string(heap, last.s, last.k)
                  = get_string(heap, heap[last.s].parent[1], last.k)

\* C3 witness: the child had shadowed the parent's 2 with its own 4, removed
\* it, and reads 2 again.
C3_Witness ==
    /\ last.op = "remove"
    /\ last.ret = Some(4)
    /\ heap[last.s].parent # None
    /\ LocalT(heap[heap[last.s].parent[1]], last.k) = Some(2)
    /\ get(heap, last.s, last.k) = Some(2)

\* C4 (as stated): after C.clear() on a child scope C, C.contains::<T>() is
\* false for every type T that C held itself before the clear, while
\* C.get::<T>() returns the parent's value whenever an ancestor holds one.
C4_AsStated ==
    (last.op = "clear" /\ heap[last.s].parent # None)
        => \A T \in Types :
               LocalT(last.before[last.s], T) # None
                   => /\ ~contains(heap, last.s, T)
                      /\ get(heap, last.s, T) = get(heap, heap[last.s].parent[1], T)

\* C4 (amended): after C.clear(), C holds no entry of its own for any type or
\* key, so C.contains::<T>() is true exactly when an ancestor holds T (false
\* when none does), and C.get::<T>() returns what the parent's lookup returns.
C4_ClearIsolation ==
    last.op = "clear"
        => LET C == heap[last.s]
           IN  /\ \A T \in Types :
                   /\ LocalT(C, T) = None
                   /\ contains(heap, last.s, T)
                          <=> (C.parent # None /\ contains(heap, C.parent[1], T))
                   /\ contains(heap, last.s, T) <=> (HoldersT(last.s, T) # {})
                   /\ get(heap, last.s, T)
                          = (IF C.parent # None THEN get(heap, C.parent[1], T) ELSE None)
               /\ \A key \in Keys :
                   /\ LocalS(C, key) = None
                   /\ contains_string(heap, last.s, key)
                          <=> (C.parent # None /\ contains_string(heap, C.parent[1], key))
                   /\ contains_string(heap, last.s, key) <=> (HoldersS(last.s, key) # {})
                   /\ get_string(heap, last.s, key)
                          = (IF C.parent # None THEN get_string(heap, C.parent[1], key)
                             ELSE None)

\* C4 witness: a child that held T itself was cleared; its parent holds T, so
\* contains is still true and get returns the parent's value.
C4_Witness ==
    /\ last.op = "clear"
    /\ heap[last.s].parent # None
    /\ LocalT(last.before[last.s], "i8") = Some(4)
    /\ LocalT(heap[last.s], "i8") = None
    /\ LocalT(heap[heap[last.s].parent[1]], "i8") = Some(2)
    /\ contains(heap, last.s, "i8")
    /\ get(heap, last.s, "i8") = Some(2)

\* C5: remove::<T>() / remove_string(k) on a scope with no local entry for
\* T / k (whether or not an ancestor holds one) returns absent and changes
\* neither the scope's own maps nor any ancestor's; a get on the scope still
\* returns the nearest ancestor's value, if one exists.
C5_NoOpRemoval ==
    /\ (last.op = "remove" /\ LocalT(last.before[last.s], last.k) = None)
           => /\ last.ret = None
              /\ heap[last.s] = last.before[last.s]
              /\ \A a \in Ancestors(heap, last.s) : heap[a] = born[last.s][a]
              /\ get(heap, last.s, last.k)
                     = (IF HoldersT(last.s, last.k) = {} THEN None
                        ELSE LocalT(heap[Path(last.s)[Min(HoldersT(last.s, last.k))]],
                                    last.k))
    /\ (last.op = "remove_string" /\ LocalS(last.before[last.s], last.k) = None)
           => /\ last.ret = None
              /\ heap[last.s] = last.before[last.s]
              /\ \A a \in Ancestors(heap, last.s) : heap[a] = born[last.s][a]
              /\ get_string(heap, last.s, last.k)
                     = (IF HoldersS(last.s, last.k) = {} THEN None
                        ELSE LocalS(heap[Path(last.s)[Min(HoldersS(last.s, last.k))]],
                                    last.k))

\* C5 witness: a child that never held T called remove::<T>(), got nothing,
\* and still reads the parent's value.
C5_Witness ==
    /\ last.op = "remove"
    /\ last.before[last.s].tmap = None
    /\ last.ret = None
    /\ heap[last.s].parent # None
    /\ LocalT(heap[heap[last.s].parent[1]], last.k) = Some(2)
    /\ get(heap, last.s, last.k) = Some(2)

\* The first value written under key in an Option<Vec<KV>>, read off the state.
Indices(v, key) == {i \in 1..Len(v) : v[i].key = key}
FirstValue(ov, key) ==
    IF ov = None \/ Indices(ov[1], key) = {} THEN None
    ELSE Some(ov[1][Min(Indices(ov[1], key))].value)

\* C6: get_<c>(k) returns the value of the earliest entry with key k still in
\* the channel; a later set_<c>(k, v') does not change what get_<c> returns for
\* any key that already has an entry in the channel.
C6_FirstMatchRead ==
    /\ nlast.op = "get" => nlast.ret = FirstValue(node[nlast.ch], nlast.k)
    /\ nlast.op = "set"
           => \A key \in NKeys :
                  FirstValue(nlast.before[nlast.ch], key) # None
                      => get_impl(node, nlast.ch, key) = FirstValue(nlast.before[nlast.ch], key)

\* C6 witness: key k held "1"; set(k, "2") was performed; get still yields "1".
C6_Witness ==
    /\ nlast.op = "set"
    /\ nlast.k = "k"
    /\ nlast.v = "2"
    /\ FirstValue(nlast.before[nlast.ch], "k") = Some("1")
    /\ get_impl(node, nlast.ch, "k") = Some("1")

\* C7: del_<c>(k) on a channel with n >= 1 entries of key k removes exactly the
\* earliest of them and keeps every other entry in its relative order, so get
\* then yields the second-earliest write (absent when n = 1); with no such
\* entry, or a channel never written, it changes nothing.
C7_DelFirstOnly ==
    nlast.op = "del"
        => LET b == nlast.before[nlast.ch]
               a == node[nlast.ch]
           IN  IF b = None \/ Indices(b[1], nlast.k) = {}
               THEN a = b
               ELSE LET v == b[1]
                        I == Indices(v, nlast.k)
                        first == Min(I)
                    IN  /\ a # None
                        /\ Len(a[1]) = Len(v) - 1
                        /\ \A j \in 1..(Len(v) - 1) :
                               a[1][j] = IF j < first THEN v[j] ELSE v[j + 1]
                        /\ get_impl(node, nlast.ch, nlast.k)
                               = (IF I = {first} THEN None
                                  ELSE Some(v[Min(I \ {first})].value))

\* C7 witness: the channel held (k,1), (j,_), (k,2); del(k) left (j,_), (k,2).
C7_Witness ==
    /\ nlast.op = "del"
    /\ nlast.k = "k"
    /\ nlast.before[nlast.ch] # None
    /\ Len(nlast.before[nlast.ch][1]) = 3
    /\ nlast.before[nlast.ch][1][1] = KV_new("k", "1")
    /\ nlast.before[nlast.ch][1][2].key = "j"
    /\ nlast.before[nlast.ch][1][3] = KV_new("k", "2")
    /\ node[nlast.ch] = Some(<<nlast.before[nlast.ch][1][2], KV_new("k", "2")>>)
    /\ get_impl(node, nlast.ch, "k") = Some("2")

\* C8: after A.extend(B), A's own typed and string entries are A's previous
\* entries overridden by B's own entries; what is reachable only through B's
\* parent is not added, and A's parent reference is unchanged.
C8_ExtendMerge ==
    last.op = "extend"
        => LET A == last.before[last.s]
               B == heap[last.other]
               R == heap[last.s]
           IN  /\ \A T \in Types :
                      LocalT(R, T) = IF LocalT(B, T) # None THEN LocalT(B, T)
                                     ELSE LocalT(A, T)
               /\ \A key \in Keys :
                      LocalS(R, key) = IF LocalS(B, key) # None THEN LocalS(B, key)
                                       ELSE LocalS(A, key)
               /\ R.parent = A.parent

\* C8 witness: A held 2 and B held 4 for the same type, so A now holds 4; B's
\* parent holds the string key that neither A nor B holds, and A still does not.
C8_Witness ==
    /\ last.op = "extend"
    /\ LocalT(last.before[last.s], "i8") = Some(2)
    /\ LocalT(heap[last.other], "i8") = Some(4)
    /\ LocalT(heap[last.s], "i8") = Some(4)
    /\ heap[last.other].parent # None
    /\ get_string(heap, heap[last.other].parent[1], "k") # None
    /\ LocalS(heap[last.other], "k") = None
    /\ LocalS(last.before[last.s], "k") = None
    /\ LocalS(heap[last.s], "k") = None

\* C9: set_<c>(k, v) makes the channel's sequence its previous sequence
\* followed by the new entry (k, v), whether or not k already occurs in it.
C9_SetAppends ==
    nlast.op = "set"
        => node[nlast.ch]
               = Some((IF nlast.before[nlast.ch] = None THEN <<>> ELSE nlast.before[nlast.ch][1])
                      \o <<[key |-> nlast.k, value |-> nlast.v]>>)

\* C9 witness: the key set was already in the channel with another value.
C9_Witness ==
    /\ nlast.op = "set"
    /\ nlast.before[nlast.ch] # None
    /\ Len(nlast.before[nlast.ch][1]) = 2
    /\ FirstValue(nlast.before[nlast.ch], nlast.k) # None
    /\ FirstValue(nlast.before[nlast.ch], nlast.k) # Some(nlast.v)
    /\ Len(node[nlast.ch][1]) = 3

\* C10: a channel's sequence is absent exactly when no set_<c> was ever
\* performed on it; get_<c> and del_<c> never create it, and once created it is
\* never absent again (deleting all entries leaves an empty sequence).
C10_LazyChannel ==
    /\ \A c \in Channels : (node[c] = None) <=> (c \notin written)
    /\ nlast.op \in {"get", "del"}
           => ((node[nlast.ch] = None) <=> (nlast.before[nlast.ch] = None))
    /\ nlast.op = "set" => node[nlast.ch] # None

\* C10 witness: del removed the only entry of a channel, which is now an
\* existing empty sequence, while another channel was never written.
C10_Witness ==
    /\ nlast.op = "del"
    /\ nlast.before[nlast.ch] # None
    /\ Len(nlast.before[nlast.ch][1]) = 1
    /\ node[nlast.ch] = Some(<<>>)
    /\ \E c \in Channels : node[c] = None /\ c \notin written

\* C11: contains follows the same fallback rule as get. For every scope, type
\* T and string key k, contains::<T>() is true exactly when get::<T>() returns
\* a value, and contains_string(k) exactly when get_string(k) does: true when
\* the scope or any ancestor holds the entry, false otherwise.
C11_ContainsIffGet ==
    \A s \in Live :
        /\ \A T \in Types :
            /\ contains(heap, s, T) <=> (get(heap, s, T) # None)
            /\ contains(heap, s, T) <=> (HoldersT(s, T) # {})
        /\ \A key \in Keys :
            /\ contains_string(heap, s, key) <=> (get_string(heap, s, key) # None)
            /\ contains_string(heap, s, key) <=> (HoldersS(s, key) # {})

\* C11 witness: a grandchild holds nothing itself; the root holds T, so both
\* contains and get succeed through two fallbacks, while no scope on the chain
\* holds the string key, so both contains_string and get_string fail.
C11_Witness ==
    \E s \in Live :
        /\ Len(Path(s)) = 3
        /\ LocalT(heap[s], "i8") = None
        /\ LocalT(heap[Path(s)[2]], "i8") = None
        /\ LocalT(heap[Path(s)[3]], "i8") = Some(2)
        /\ contains(heap, s, "i8")
        /\ get(heap, s, "i8") = Some(2)
        /\ heap[Path(s)[3]].smap # None
        /\ ~contains_string(heap, s, "k")
        /\ get_string(heap, s, "k") = None

\* C12: insert overwrites within one scope. A scope holds at most one local
\* entry per type and per string key (each typed entry is stored under the
\* TypeId of its own value); insert::<T>(v) replaces the scope's previous
\* local value of T and leaves its other typed entries alone, so get::<T>()
\* on that scope then returns v, also when the insert follows a clear().
C12_InsertOverwrites ==
    /\ \A s \in Scopes :
           /\ heap[s].tmap # None
                  => /\ DOMAIN heap[s].tmap[1] \subseteq Types
                     /\ \A T \in DOMAIN heap[s].tmap[1] : heap[s].tmap[1][T].type_id = T
           /\ heap[s].smap # None => DOMAIN heap[s].smap[1] \subseteq Keys
    /\ last.op = "insert"
           => /\ LocalT(heap[last.s], last.k) = last.v
              /\ get(heap, last.s, last.k) = last.v
              /\ \A T \in Types \ {last.k} :
                     LocalT(heap[last.s], T) = LocalT(last.before[last.s], T)
    /\ last.op = "insert_string"
           => /\ LocalS(heap[last.s], last.k) = last.v
              /\ get_string(heap, last.s, last.k) = last.v
              /\ \A key \in Keys \ {last.k} :
                     LocalS(heap[last.s], key) = LocalS(last.before[last.s], key)
    /\ (last.op = "insert" /\ last.after_clear)
           => /\ LocalT(last.before[last.s], last.k) = None
              /\ get(heap, last.s, last.k) = last.v

\* C12 witness: the scope held 2 for T itself, insert::<T>(4) was called on
\* it, and it now holds 4 alone, which is what get returns.
C12_Witness ==
    /\ last.op = "insert"
    /\ LocalT(last.before[last.s], "i8") = Some(2)
    /\ last.v = Some(4)
    /\ DOMAIN heap[last.s].tmap[1] = {"i8"}
    /\ get(heap, last.s, "i8") = Some(4)

\* The case of tests::test_clear: the insert directly follows a clear() of a
\* child that had held 2, whose parent holds 2 as well; get returns the 4.
C12_AfterClear ==
    /\ last.op = "insert"
    /\ last.after_clear
    /\ heap[last.s].parent # None
    /\ get(heap, heap[last.s].parent[1], "i8") = Some(2)
    /\ last.v = Some(4)
    /\ get(heap, last.s, "i8") = Some(4)

\* C13: remove returns the local value only. remove::<T>() / remove_string(k)
\* returns the value the scope itself held for T / k immediately before the
\* call and deletes that local entry (and no other); it returns absent when
\* the scope has no local entry, even if an ancestor holds one, and never
\* hands out an ancestor's value.
C13_RemoveLocalOnly ==
    /\ last.op = "remove"
           => /\ last.ret = LocalT(last.before[last.s], last.k)
              /\ LocalT(heap[last.s], last.k) = None
              /\ \A T \in Types \ {last.k} :
                     LocalT(heap[last.s], T) = LocalT(last.before[last.s], T)
              /\ LocalT(last.before[last.s], last.k) = None => last.ret = None
    /\ last.op = "remove_string"
           => /\ last.ret = LocalS(last.before[last.s], last.k)
              /\ LocalS(heap[last.s], last.k) = None
              /\ \A key \in Keys \ {last.k} :
                     LocalS(heap[last.s], key) = LocalS(last.before[last.s], key)
              /\ LocalS(last.before[last.s], last.k) = None => last.ret = None

\* C13 witness: a grandchild with an existing but empty smap called
\* remove_string(k) while its parent holds "b" and the root holds "a" for k;
\* the call returned absent although get_string yields "b".
C13_Witness ==
    /\ last.op = "remove_string"
    /\ Len(Path(last.s)) = 3
    /\ last.before[last.s].smap = Some(FxHashMap_default)
    /\ LocalS(heap[Path(last.s)[2]], "k") = Some("b")
    /\ LocalS(heap[Path(last.s)[3]], "k") = Some("a")
    /\ last.ret = None
    /\ get_string(heap, last.s, "k") = Some("b")

\* C14: channel reads of unset keys are absences, not errors. get_<c>(k) on a
\* channel that was never written, or that holds no entry with key k, returns
\* absent, and a get leaves every channel of the Node unchanged; set_<c> is
\* defined for every channel, key and value (it can always be called and
\* always yields a Node whose channel ends with the new entry).
C14_UnsetReadsAbsent ==
    /\ nlast.op = "get"
           => /\ node = nlast.before
              /\ nlast.ch \notin written => nlast.ret = None
              /\ (nlast.before[nlast.ch] = None
                  \/ Indices(nlast.before[nlast.ch][1], nlast.k) = {})
                     => nlast.ret = None
              /\ nlast.ret = None \/ (\E value \in NVals : nlast.ret = Some(value))
    /\ \A name \in Channels, key \in NKeys, value \in NVals :
           /\ TotalLen(node, Channels) < MaxEntries => ENABLED Set(name, key, value)
           /\ LET r == set_impl(node, name, key, value)
              IN  /\ DOMAIN r = Channels
                  /\ r[name] # None
                  /\ r[name][1][Len(r[name][1])] = KV_new(key, value)

\* C14 witness: get_<c>("k") on a channel that holds only key "j" returned
\* absent, while a second channel holds "k" and a third was never written.
C14_Witness ==
    /\ nlast.op = "get"
    /\ nlast.k = "k"
    /\ node[nlast.ch] # None
    /\ Len(node[nlast.ch][1]) = 1
    /\ node[nlast.ch][1][1].key = "j"
    /\ \E c \in Channels \ {nlast.ch} : FirstValue(node[c], "k") # None
    /\ \E c \in Channels : c \notin written
    /\ nlast.ret = None

\* C15: the channels of one Node are independent. set_<c> and del_<c> on one
\* channel leave the sequences of the other channels unchanged, so get_<d>(k)
\* on any other channel d returns what it returned before, and get_<c>(k)
\* only ever returns the value of an entry of channel c itself.
C15_ChannelsIndependent ==
    /\ nlast.op \in {"set", "del"}
           => \A c \in Channels \ {nlast.ch} :
                  /\ node[c] = nlast.before[c]
                  /\ \A key \in NKeys :
                         get_impl(node, c, key) = get_impl(nlast.before, c, key)
    /\ nlast.op = "get"
           => \/ nlast.ret = None
              \/ /\ node[nlast.ch] # None
                 /\ \E i \in 1..Len(node[nlast.ch][1]) :
                        node[nlast.ch][1][i] = KV_new(nlast.k, unwrap(nlast.ret))

\* C15 witness: set_<c>("k", "2") was called on one channel while a second
\* channel holds ("k", "1") and a third was never written; the second still
\* reads "1" and the third still reads absent.
C15_Witness ==
    /\ nlast.op = "set"
    /\ nlast.k = "k"
    /\ nlast.v = "2"
    /\ \E c, d \in Channels \ {nlast.ch} :
           /\ c # d
           /\ node[c] = Some(<<KV_new("k", "1")>>)
           /\ get_impl(node, c, "k") = Some("1")
           /\ d \notin written
           /\ get_impl(node, d, "k") = None
    /\ get_impl(node, nlast.ch, "k") = Some("2")

\* The children constructed from scope p.
Children(p) == {c \in Scopes : heap[c].parent = Some(p)}

\* C16: sibling isolation under interleaving. Each scope is mutated through
\* &mut self by its one owner and a shared parent is only read, so the calls
\* of different owners interleave as whole calls. Under every interleaving, a
\* mutating call on one scope changes the result of no get / get_string /
\* contains / contains_string on any other scope: not on a sibling that shares
\* its parent, and not on the parent.
C16_SiblingIsolation ==
    last.op \in Mutators
        => \A t \in Scopes \ {last.s} :
               /\ \A T \in Types :
                      /\ get(heap, t, T) = get(last.before, t, T)
                      /\ contains(heap, t, T) = contains(last.before, t, T)
               /\ \A key \in Keys :
                      /\ get_string(heap, t, key) = get_string(last.before, t, key)
                      /\ contains_string(heap, t, key)
                             = contains_string(last.before, t, key)

\* C16 witness: two children of one parent that holds 2. One child has
\* inserted "a" under the string key and reads the parent's 2; the other has
\* just inserted 4 for T, which changed its own get from 2 to 4 and nothing
\* that its sibling or the parent reads.
C16_Witness ==
    /\ last.op = "insert"
    /\ last.v = Some(4)
    /\ heap[last.s].parent # None
    /\ get(last.before, last.s, "i8") = Some(2)
    /\ get(heap, last.s, "i8") = Some(4)
    /\ get(heap, heap[last.s].parent[1], "i8") = Some(2)
    /\ \E t \in Children(heap[last.s].parent[1]) \ {last.s} :
           /\ t \in Owned
           /\ LocalS(heap[t], "k") = Some("a")
           /\ LocalT(heap[t], "i8") = None
           /\ get(heap, t, "i8") = Some(2)
           /\ get_string(heap, last.s, "k") = None

\* The number of scopes that get::<T>() / contains::<T>() on scope s visits
\* (the scope itself, then one per delegation to a parent), or -1 when the
\* lookup has not finished after fuel visits.
RECURSIVE Visits(_, _, _, _)
Visits(h, s, T, fuel) ==
    IF fuel = 0 THEN -1
    ELSE IF LocalT(h[s], T) # None \/ h[s].parent = None THEN 1
    ELSE LET r == Visits(h, h[s].parent[1], T, fuel - 1)
         IN  IF r = -1 THEN -1 ELSE r + 1
\* The same for get_string(key) / contains_string(key).
RECURSIVE VisitsS(_, _, _, _)
VisitsS(h, s, key, fuel) ==
    IF fuel = 0 THEN -1
    ELSE IF LocalS(h[s], key) # None \/ h[s].parent = None THEN 1
    ELSE LET r == VisitsS(h, h[s].parent[1], key, fuel - 1)
         IN  IF r = -1 THEN -1 ELSE r + 1

\* C17: lookup terminates. A scope's parent reference is fixed when the scope
\* is constructed (none for new(), a scope that already exists for from) and
\* no operation reassigns it, so the parent relation is acyclic and every
\* get / get_string / contains / contains_string reaches a root and finishes
\* after visiting at most as many scopes as the chain is deep.
C17_LookupTerminates ==
    /\ \A s \in Scopes :
           heap[s].parent = None \/ heap[s].parent[1] \in 1..(s - 1)
    /\ last.op # "init"
           => \A s \in 1..Len(last.before) : heap[s].parent = last.before[s].parent
    /\ last.op \in Mutators => Len(heap) = Len(last.before)
    /\ last.op = "new"
           => /\ Len(heap) = Len(last.before) + 1
              /\ heap[last.s].parent = None
    /\ last.op = "from"
           => /\ Len(heap) = Len(last.before) + 1
              /\ heap[last.s].parent # None
              /\ heap[last.s].parent[1] \in 1..Len(last.before)
    /\ \A s \in Scopes :
           /\ heap[Path(s)[Len(Path(s))]].parent = None
           /\ \A T \in Types : Visits(heap, s, T, Len(heap)) \in 1..Len(Path(s))
           /\ \A key \in Keys : VisitsS(heap, s, key, Len(heap)) \in 1..Len(Path(s))

\* C17 witness: a chain of depth three whose leaf has just been cleared; no
\* scope on it holds T, so the lookup visits all three scopes and ends at the
\* root, while the string lookup stops at the middle scope after two.
C17_Witness ==
    /\ last.op = "clear"
    /\ Len(Path(last.s)) = 3
    /\ last.before[last.s] # heap[last.s]
    /\ Visits(heap, last.s, "i8", Len(heap)) = 3
    /\ get(heap, last.s, "i8") = None
    /\ ~contains(heap, last.s, "i8")
    /\ VisitsS(heap, last.s, "k", Len(heap)) = 2
    /\ get_string(heap, last.s, "k") = Some("b")

\* C18: the typed and the string store of a scope are separate namespaces.
\* insert::<T> and remove::<T> change no local string entry and the result of
\* no get_string / contains_string; insert_string and remove_string change no
\* local typed entry and the result of no get::<T> / contains::<T>. Of the
\* mutating calls only clear and extend write both local maps.
C18_SeparateNamespaces ==
    /\ last.op \in {"insert", "remove"}
           => /\ \A key \in Keys :
                     LocalS(heap[last.s], key) = LocalS(last.before[last.s], key)
              /\ \A t \in Scopes, key \in Keys :
                     /\ get_string(heap, t, key) = get_string(last.before, t, key)
                     /\ contains_string(heap, t, key)
                            = contains_string(last.before, t, key)
    /\ last.op \in {"insert_string", "remove_string"}
           => /\ \A T \in Types :
                     LocalT(heap[last.s], T) = LocalT(last.before[last.s], T)
              /\ \A t \in Scopes, T \in Types :
                     /\ get(heap, t, T) = get(last.before, t, T)
                     /\ contains(heap, t, T) = contains(last.before, t, T)
    /\ (/\ last.op \in Mutators
        /\ \E T \in Types : LocalT(heap[last.s], T) # LocalT(last.before[last.s], T)
        /\ \E key \in Keys : LocalS(heap[last.s], key) # LocalS(last.before[last.s], key))
           => last.op \in {"clear", "extend"}

\* C18 witness: a child that holds 4 for T and "b" for k, under a parent that
\* holds 2 and "a", called remove_string(k): its get_string changed from "b"
\* to "a", and its typed entry and get::<T>() are still 4.
C18_Witness ==
    /\ last.op = "remove_string"
    /\ last.ret = Some("b")
    /\ heap[last.s].parent # None
    /\ get_string(last.before, last.s, "k") = Some("b")
    /\ get_string(heap, last.s, "k") = Some("a")
    /\ LocalT(last.before[last.s], "i8") = Some(4)
    /\ LocalT(heap[last.s], "i8") = Some(4)
    /\ get(heap, heap[last.s].parent[1], "i8") = Some(2)
    /\ get(heap, last.s, "i8") = Some(4)

\* A clear and an extend that changed a typed and a string entry in one call.
C18_ClearTouchesBoth ==
    /\ last.op = "clear"
    /\ LocalT(last.before[last.s], "i8") # None
    /\ LocalS(last.before[last.s], "k") # None
    /\ LocalT(heap[last.s], "i8") = None
    /\ LocalS(heap[last.s], "k") = None
C18_ExtendTouchesBoth ==
    /\ last.op = "extend"
    /\ LocalT(heap[last.s], "i8") # LocalT(last.before[last.s], "i8")
    /\ LocalS(heap[last.s], "k") # LocalS(last.before[last.s], "k")

====
